---- MODULE Spec2Model ----
(***************************************************************************)
(* Model of the "Missing 945" reconciliation service (src/main.py):       *)
(* build_report_rows (two left joins, rename, business filter, dedupe),   *)
(* the /reconcile export endpoint and the /send-report mail endpoint.     *)
(*                                                                         *)
(* A Python dict is modelled as a sequence of <<key, value>> pairs in     *)
(* insertion order, so that both membership and emission order are kept.  *)
(***************************************************************************)
EXTENDS Integers, Sequences, FiniteSets, TLC

(* ---------------------------- bounds ---------------------------------- *)
\* Largest total number of data rows of the three feeds given to
\* build_report_rows.
MaxRows == 4
\* Largest total number of data rows of the three uploads of a request to
\* /reconcile or /send-report.
MaxUploadRows == 3

(* ------------------------- dict primitives ---------------------------- *)
\* `k in d`
HasKey(d, k) == \E i \in 1..Len(d) : d[i][1] = k

\* d.get(k, default)
Get(d, k, default) ==
    IF HasKey(d, k) THEN d[CHOOSE i \in 1..Len(d) : d[i][1] = k][2] ELSE default

\* d[k] = v : an existing key keeps its position, a new key goes last.
SetItem(d, k, v) ==
    IF HasKey(d, k)
    THEN [i \in 1..Len(d) |-> IF d[i][1] = k THEN <<k, v>> ELSE d[i]]
    ELSE Append(d, <<k, v>>)

\* the dict left by d.pop(k, default)
PopRest(d, k) == SelectSeq(d, LAMBDA p : p[1] # k)

\* list(d.keys())
Keys(d) == [i \in 1..Len(d) |-> d[i][1]]

\* The value r.get(k) returns for an absent key (Python's None); no cell of
\* a parsed feed is None (load_csv_bytes turns None into "").
None == "<None>"

(* --------------------------- column names ----------------------------- *)
\* The eighteen fields copied verbatim from the primary record, in the order
\* of the first join's dict literal.
PrimaryFields ==
    << "Warehouse", "Pickticket", "Order", "Drop Date", "Ship Date", "Ship To",
       "Ship State", "Zip Code", "Customer PO", "Ship Via", "Load ID", "Weight",
       "SKU", "Units", "Price", "Size Type", "Size", "Product Type" >>

\* The three acknowledgment fields overlaid from the EDIB2Bi feed.
AckFields == << "InvoiceNumber", "StatusSummary", "ERRORDESCRIPTION" >>

\* Key order of the second join's dict literal, before the rename.
OutFields ==
    << "Pickticket", "Warehouse", "Order", "Drop Date", "Ship Date", "Ship To",
       "Ship State", "Zip Code", "Customer PO", "Ship Via", "Load ID", "Weight",
       "SKU", "Units", "Price", "Size Type", "Size", "Product Type",
       "InvoiceNumber", "StatusSummary", "ERRORDESCRIPTION" >>

\* The fields taken from the EDI940 record in the second join.
RouteFields ==
    << "PickRoute", "SalesHeaderStatus", "SalesHeaderDocStatus",
       "PickModeOfDelivery", "PickCreatedDate", "DeliveryDate" >>

\* The rename pairs <<old key, new key>>, in the order the code applies them.
Renames ==
    << <<"InvoiceNumber", "Received in EDI?">>,
       <<"StatusSummary", "EDI Processing Status">>,
       <<"ERRORDESCRIPTION", "EDI Message">>,
       <<"PickRoute", "Found in AX DATa?">> >>

\* The `columns` list of reconcile and send_report.
columns ==
    << "Pickticket", "Warehouse", "Order", "Drop Date", "Ship Date", "Ship To",
       "Ship State", "Zip Code", "Customer PO", "Ship Via", "Load ID", "Weight",
       "SKU", "Units", "Price", "Size Type", "Size", "Product Type",
       "Received in EDI?", "EDI Processing Status", "EDI Message",
       "Found in AX DATa?", "SalesHeaderStatus", "SalesHeaderDocStatus",
       "PickModeOfDelivery", "PickCreatedDate", "DeliveryDate" >>

(* ------------------------- build_report_rows -------------------------- *)
\* Variant of has_col without the empty-feed clause.
has_colNoEmpty(rows, col) == \E i \in 1..Len(rows) : HasKey(rows[i], col)

\* has_col(rows, col)
has_col(rows, col) ==
    (\E i \in 1..Len(rows) : HasKey(rows[i], col)) \/ Len(rows) = 0

\* Variant of BuildIndex in which the first record of a key value stays.
RECURSIVE BuildIndexFirstWins(_, _)
BuildIndexFirstWins(rows, col) ==
    IF rows = <<>> THEN <<>>
    ELSE LET last == rows[Len(rows)]
             idx  == BuildIndexFirstWins(SubSeq(rows, 1, Len(rows) - 1), col)
         IN  IF HasKey(idx, Get(last, col, "")) THEN idx
             ELSE Append(idx, <<Get(last, col, ""), last>>)

\* {r.get(col, ""): r for r in rows}: a later record overwrites an earlier
\* one that has the same key value.
RECURSIVE BuildIndex(_, _)
BuildIndex(rows, col) ==
    IF rows = <<>> THEN <<>>
    ELSE LET last == rows[Len(rows)]
         IN  SetItem(BuildIndex(SubSeq(rows, 1, Len(rows) - 1), col),
                     Get(last, col, ""), last)

\* Variant of FirstJoinRow that reads the acknowledgment fields from the
\* matched record alone, and from the primary record only without a match.
FirstJoinRowMatchOnly(r1, by_ax) ==
    LET key == Get(r1, "Pickticket", "")
        r2  == Get(by_ax, key, <<>>)
    IN  [i \in 1..Len(PrimaryFields) |->
            <<PrimaryFields[i], Get(r1, PrimaryFields[i], "")>>]
        \o
        [i \in 1..Len(AckFields) |->
            <<AckFields[i], IF HasKey(by_ax, key) THEN Get(r2, AckFields[i], "")
                            ELSE Get(r1, AckFields[i], "")>>]

\* One row of the first join: df1 left join df2 on Pickticket = AXReferenceID.
FirstJoinRow(r1, by_ax) ==
    LET key == Get(r1, "Pickticket", "")
        r2  == Get(by_ax, key, <<>>)
    IN  [i \in 1..Len(PrimaryFields) |->
            <<PrimaryFields[i], Get(r1, PrimaryFields[i], "")>>]
        \o
        [i \in 1..Len(AckFields) |->
            <<AckFields[i], Get(r2, AckFields[i], Get(r1, AckFields[i], ""))>>]

FirstJoin(d1, by_ax) == [i \in 1..Len(d1) |-> FirstJoinRow(d1[i], by_ax)]

\* One row of the second join: merged left join df3 on Pickticket = PickRoute.
SecondJoinRow(r, by_pickroute) ==
    LET r3 == Get(by_pickroute, Get(r, "Pickticket", ""), <<>>)
    IN  [i \in 1..Len(OutFields) |-> <<OutFields[i], Get(r, OutFields[i], "")>>]
        \o
        [i \in 1..Len(RouteFields) |-> <<RouteFields[i], Get(r3, RouteFields[i], "")>>]

SecondJoin(m, by_pickroute) == [i \in 1..Len(m) |-> SecondJoinRow(m[i], by_pickroute)]

\* r[new] = r.pop(old, '') for the first n rename pairs.
RECURSIVE RenameN(_, _)
RenameN(r, n) ==
    IF n = 0 THEN r
    ELSE LET prev == RenameN(r, n - 1)
             old  == Renames[n][1]
             new  == Renames[n][2]
         IN  SetItem(PopRest(prev, old), new, Get(prev, old, ""))

RenameRow(r) == RenameN(r, Len(Renames))

RenameRows(rows) == [i \in 1..Len(rows) |-> RenameRow(rows[i])]

\* Variant of Keep that takes an empty status for an absent one.
KeepEmptyAsAbsent(r) ==
    LET doc  == Get(r, "SalesHeaderDocStatus", None)
        proc == Get(r, "EDI Processing Status", None)
    IN  (doc \in {None, ""} \/ proc \in {None, ""})
        \/ (doc \in {"Picking List"} /\ proc \in {"AX Load Failure"})

\* Variant of Keep that asks for either status instead of both.
KeepEither(r) ==
    LET doc  == Get(r, "SalesHeaderDocStatus", None)
        proc == Get(r, "EDI Processing Status", None)
    IN  (doc = None \/ proc = None)
        \/ (doc \in {"Picking List"} \/ proc \in {"AX Load Failure"})

\* The condition of the filter loop.
Keep(r) ==
    LET doc  == Get(r, "SalesHeaderDocStatus", None)
        proc == Get(r, "EDI Processing Status", None)
    IN  (doc = None \/ proc = None)
        \/ (doc \in {"Picking List"} /\ proc \in {"AX Load Failure"})

\* Variant of DedupeScan that never records a Pickticket as seen.
RECURSIVE DedupeScanNoSeen(_, _)
DedupeScanNoSeen(rows, n) ==
    IF n = 0 THEN [seen |-> {}, deduped |-> <<>>]
    ELSE LET prev == DedupeScanNoSeen(rows, n - 1)
             pt   == Get(rows[n], "Pickticket", "")
         IN  IF pt \notin prev.seen
             THEN [seen |-> prev.seen, deduped |-> Append(prev.deduped, rows[n])]
             ELSE prev

\* Variant of DedupeScan in which a repeat replaces the row kept before.
RECURSIVE DedupeScanLastWins(_, _)
DedupeScanLastWins(rows, n) ==
    IF n = 0 THEN [seen |-> {}, deduped |-> <<>>]
    ELSE LET prev == DedupeScanLastWins(rows, n - 1)
             pt   == Get(rows[n], "Pickticket", "")
         IN  [seen |-> prev.seen \cup {pt},
              deduped |-> Append(SelectSeq(prev.deduped,
                                           LAMBDA r : Get(r, "Pickticket", "") # pt),
                                 rows[n])]

\* The dedupe loop: rows[1..n] scanned, a row kept when its Pickticket is new.
RECURSIVE DedupeScan(_, _)
DedupeScan(rows, n) ==
    IF n = 0 THEN [seen |-> {}, deduped |-> <<>>]
    ELSE LET prev == DedupeScan(rows, n - 1)
             pt   == Get(rows[n], "Pickticket", "")
         IN  IF pt \notin prev.seen
             THEN [seen |-> prev.seen \cup {pt}, deduped |-> Append(prev.deduped, rows[n])]
             ELSE prev

Dedupe(rows) == DedupeScan(rows, Len(rows)).deduped

\* Variant of Filter that runs the dedupe before the filter.
FilterAfterDedupe(rows) == SelectSeq(Dedupe(rows), Keep)

\* The filter loop.
Filter(rows) == SelectSeq(rows, Keep)

\* An error response (HTTPException) or a success marker.
Resp(status, kind, column, source) ==
    [status |-> status, kind |-> kind, column |-> column, source |-> source]

NoError == Resp(0, "", "", "")

\* The three required-column checks, in order; NoError when all pass.
CheckColumns(d1, d2, d3) ==
    IF ~has_col(d1, "Pickticket")
    THEN Resp(400, "Missing column", "Pickticket", "Shipment_History___Total")
    ELSE IF ~has_col(d2, "AXReferenceID")
    THEN Resp(400, "Missing column", "AXReferenceID", "EDIB2BiReportV2")
    ELSE IF ~has_col(d3, "PickRoute")
    THEN Resp(400, "Missing column", "PickRoute", "EDI940Report_withCostV2.0")
    ELSE NoError

\* The whole function: every stage's value, or the error raised before any.
build_report_rows(d1, d2, d3) ==
    LET e == CheckColumns(d1, d2, d3)
    IN  IF e # NoError
        THEN [err |-> e, merged |-> <<>>, final_rows |-> <<>>,
              filtered |-> <<>>, deduped |-> <<>>]
        ELSE LET by_ax        == BuildIndex(d2, "AXReferenceID")
                 by_pickroute == BuildIndex(d3, "PickRoute")
                 m   == FirstJoin(d1, by_ax)
                 fin == RenameRows(SecondJoin(m, by_pickroute))
                 flt == Filter(fin)
             IN  [err |-> NoError, merged |-> m, final_rows |-> fin,
                  filtered |-> flt, deduped |-> Dedupe(flt)]

(* ------------------------------ exports ------------------------------- *)
\* rows[:200] in to_pdf_bytes
PdfPreviewRows == 200

\* What an export carries: the header row and one list of cells per row
\* (table kinds), or the row dicts themselves (json).
Export(kind, header, body, rows) ==
    [kind |-> kind, header |-> header, body |-> body, rows |-> rows]

NoData == Export("", <<>>, <<>>, <<>>)

\* [r.get(c, "") for c in cols] for every row
Cells(rows, cols) ==
    [i \in 1..Len(rows) |-> [c \in 1..Len(cols) |-> Get(rows[i], cols[c], "")]]

to_xlsx_bytes(rows, cols) == Export("xlsx", cols, Cells(rows, cols), <<>>)

to_csv_bytes(rows, cols) == Export("csv", cols, Cells(rows, cols), <<>>)

to_pdf_bytes(rows, cols) ==
    LET n == IF Len(rows) < PdfPreviewRows THEN Len(rows) ELSE PdfPreviewRows
    IN  Export("pdf", cols, Cells(SubSeq(rows, 1, n), cols), <<>>)

\* JSONResponse({"filename": ..., "rows": rows}): the dicts as they are.
to_json(rows) == Export("json", <<>>, <<>>, rows)

\* str.lower() on the format strings a request may carry.
Lower(s) ==
    CASE s = "CSV" -> "csv"
      [] s = "Pdf" -> "pdf"
      [] OTHER -> s

\* (format or "xlsx").lower()
NormFormat(f) == Lower(IF f = "" THEN "xlsx" ELSE f)

\* The export branch shared by both endpoints (format is xlsx, csv or pdf):
\* the bytes, or the error of a backend that is not installed.
ExportTable(fmt, rows, openpyxl, reportlab) ==
    IF fmt = "xlsx"
    THEN IF ~openpyxl
         THEN [err |-> Resp(500, "Excel export not available", "", ""), data |-> NoData]
         ELSE [err |-> NoError, data |-> to_xlsx_bytes(rows, columns)]
    ELSE IF fmt = "csv"
    THEN [err |-> NoError, data |-> to_csv_bytes(rows, columns)]
    ELSE IF ~reportlab
         THEN [err |-> Resp(500, "PDF export not available", "", ""), data |-> NoData]
         ELSE [err |-> NoError, data |-> to_pdf_bytes(rows, columns)]

(* ------------------------------- mail --------------------------------- *)
\* str.strip() on the recipient pieces a request may carry.
Strip(s) ==
    CASE s = " " -> ""
      [] s = " ops@example.com " -> "ops@example.com"
      [] OTHER -> s

\* [e.strip() for e in to.split(",") if e.strip()], `to` given as its pieces.
Recipients(to) ==
    LET kept == SelectSeq(to, LAMBDA e : Strip(e) # "")
    IN  [i \in 1..Len(kept) |-> Strip(kept[i])]

\* `not v` for an environment value (None or a string).
Falsy(v) == v = None \/ v = ""

\* Variant of SmtpMissing that fails only when all three are missing.
SmtpMissingAll(host, user, pass) == Falsy(host) /\ Falsy(user) /\ Falsy(pass)

\* `not smtp_host or not smtp_user or not smtp_pass`
SmtpMissing(host, user, pass) == Falsy(host) \/ Falsy(user) \/ Falsy(pass)

(* ------------------------------ inputs -------------------------------- *)
\* Feeds as load_csv_bytes returns them: every row of a feed has the keys of
\* the (trimmed) header, in header order, and every cell is a string.
PickKeys == {"", "P1", "P2"}

\* The key values of the uploads the endpoints are tried with.
UploadKeys == {"P1"}

\* Warehouse of the i-th primary row: a tag that tells the rows apart.
WarehouseTag == << "W1", "W2", "W3", "W4", "W5", "W6" >>

PrimaryHeaders ==
    { << "Pickticket", "Warehouse" >>,
      << "Pickticket", "Warehouse", "InvoiceNumber", "StatusSummary", "ERRORDESCRIPTION" >>,
      << "Warehouse" >> }

AckHeaders ==
    { << "AXReferenceID", "InvoiceNumber", "StatusSummary", "ERRORDESCRIPTION" >>,
      << "AXReferenceID" >>,
      << "StatusSummary" >> }

RouteHeaders ==
    { << "PickRoute", "SalesHeaderStatus", "SalesHeaderDocStatus" >>,
      << "SalesHeaderDocStatus" >> }

\* The values a cell of column col may hold in feed `feed`, the key columns
\* ranging over keys.
CellValues(feed, col, keys) ==
    CASE col \in {"Pickticket", "AXReferenceID", "PickRoute"} -> keys
      [] col = "StatusSummary" /\ feed = "primary" -> {"AX Load Failure", "Pending"}
      [] col = "StatusSummary" /\ feed = "ack" -> {"AX Load Failure", "Accepted"}
      [] col = "InvoiceNumber" -> IF feed = "primary" THEN {"INV-H"} ELSE {"INV-E"}
      [] col = "ERRORDESCRIPTION" -> IF feed = "primary" THEN {"ERR-H"} ELSE {"ERR-E"}
      [] col = "SalesHeaderDocStatus" -> {"Picking List", "Shipped"}
      [] col = "SalesHeaderStatus" -> {"Open"}
      [] OTHER -> {""}

\* All rows over header h.
RECURSIVE RowsOf(_, _, _)
RowsOf(feed, h, keys) ==
    IF h = <<>> THEN {<<>>}
    ELSE { << <<Head(h), v>> >> \o r :
              v \in CellValues(feed, Head(h), keys), r \in RowsOf(feed, Tail(h), keys) }

\* All feeds of at most n rows over one of the headers.
FeedsOf(feed, headers, n, keys) ==
    UNION { UNION { [1..k -> RowsOf(feed, h, keys)] : k \in 0..n } : h \in headers }

\* The primary feed's rows carry their row number in Warehouse.
Tagged(rows) ==
    [i \in 1..Len(rows) |->
        IF HasKey(rows[i], "Warehouse") THEN SetItem(rows[i], "Warehouse", WarehouseTag[i])
        ELSE rows[i]]

PrimaryFeeds(n, keys) == { Tagged(f) : f \in FeedsOf("primary", PrimaryHeaders, n, keys) }
AckFeeds(n, keys) == FeedsOf("ack", AckHeaders, n, keys)
RouteFeeds(n, keys) == FeedsOf("route", RouteHeaders, n, keys)

\* The request parameters the endpoints are tried with.
FormatInputs == {"", "CSV", "Pdf", "json", "txt"}
ToInputs ==
    { << "" >>, << " ", "" >>, << " ops@example.com ", " ", "audit@example.com" >> }
\* SMTP_HOST, SMTP_USER, SMTP_PASS as os.getenv returns them: all set, or
\* one of them unset (None) or set to the empty string.
SmtpEnvs ==
    { [host |-> "smtp.example.com", user |-> "mailer", pass |-> "secret"],
      [host |-> None, user |-> "mailer", pass |-> "secret"],
      [host |-> "smtp.example.com", user |-> "", pass |-> "secret"],
      [host |-> "smtp.example.com", user |-> "mailer", pass |-> None] }

(* ------------------------------- state -------------------------------- *)
VARIABLES
    df1, df2, df3,      \* the three parsed feeds
    pc,                 \* where the call or request stands
    err,                \* the error build_report_rows raised, or NoError
    merged, final_rows, filtered, deduped,   \* the stages of build_report_rows
    req,                \* the request's parameters and environment
    data,               \* the exported report
    sent,               \* the relay has been handed the message
    response            \* what the endpoint answered

pipe == << err, merged, final_rows, filtered, deduped >>
vars == << df1, df2, df3, pc, err, merged, final_rows, filtered, deduped,
           req, data, sent, response >>

Request(endpoint, format, to, env) ==
    [endpoint |-> endpoint, format |-> format, to |-> to, env |-> env]

NoEnv == [host |-> None, user |-> None, pass |-> None]
NoRequest == Request("", "", <<>>, NoEnv)

InitFeeds(n, keys) ==
    /\ df1 \in PrimaryFeeds(n, keys)
    /\ df2 \in AckFeeds(n - Len(df1), keys)
    /\ df3 \in RouteFeeds(n - Len(df1) - Len(df2), keys)

InitRest ==
    /\ pc = "start"
    /\ err = NoError
    /\ merged = <<>>
    /\ final_rows = <<>>
    /\ filtered = <<>>
    /\ deduped = <<>>
    /\ req = NoRequest
    /\ data = NoData
    /\ sent = FALSE
    /\ response = NoError

\* A call of build_report_rows on feeds of at most MaxRows rows in all.
Init == InitFeeds(MaxRows, PickKeys) /\ InitRest

\* A request with uploads of at most MaxUploadRows rows in all.
InitApi == InitFeeds(MaxUploadRows, UploadKeys) /\ InitRest

SetPipe(b) ==
    /\ err' = b.err
    /\ merged' = b.merged
    /\ final_rows' = b.final_rows
    /\ filtered' = b.filtered
    /\ deduped' = b.deduped

BuildReportRows ==
    /\ pc = "start"
    /\ LET b == build_report_rows(df1, df2, df3)
       IN  /\ SetPipe(b)
           /\ pc' = IF b.err = NoError THEN "returned" ELSE "raised"
    /\ UNCHANGED << df1, df2, df3, req, data, sent, response >>

Next == BuildReportRows

Spec == Init /\ [][Next]_vars

(* ----------------------------- /reconcile ----------------------------- *)
\* The whole handler: format check, build_report_rows, export, response.
reconcile ==
    /\ pc = "start"
    /\ \E f \in FormatInputs, openpyxl \in BOOLEAN, reportlab \in BOOLEAN :
          LET fmt == NormFormat(f)
          IN  /\ req' = Request("reconcile", f, <<>>, NoEnv)
              /\ IF fmt \notin {"xlsx", "csv", "json", "pdf"}
                 THEN /\ response' = Resp(400, "format must be one of xlsx,csv,json,pdf", "", "")
                      /\ data' = NoData
                      /\ UNCHANGED pipe
                 ELSE LET b == build_report_rows(df1, df2, df3)
                          x == ExportTable(fmt, b.deduped, openpyxl, reportlab)
                      IN  /\ SetPipe(b)
                          /\ IF b.err # NoError
                             THEN response' = b.err /\ data' = NoData
                             ELSE IF fmt = "json"
                             THEN response' = Resp(200, "json", "", "") /\ data' = to_json(b.deduped)
                             ELSE IF x.err # NoError
                             THEN response' = x.err /\ data' = NoData
                             ELSE response' = Resp(200, "file", "", "") /\ data' = x.data
    /\ pc' = "done"
    /\ UNCHANGED << df1, df2, df3, sent >>

(* ---------------------------- /send-report ---------------------------- *)
\* Everything send_report does before it opens the SMTP session, in the
\* code's order: the first error met, or the exported attachment.
send_report_prepare(b, f, to, env, openpyxl, reportlab) ==
    LET fmt == NormFormat(f)
        x   == ExportTable(fmt, b.deduped, openpyxl, reportlab)
    IN  IF b.err # NoError THEN [err |-> b.err, data |-> NoData]
        ELSE IF fmt \notin {"xlsx", "csv", "pdf"}
        THEN [err |-> Resp(400, "format must be one of xlsx,csv,pdf", "", ""), data |-> NoData]
        ELSE IF x.err # NoError THEN x
        ELSE IF SmtpMissing(env.host, env.user, env.pass)
        THEN [err |-> Resp(500, "SMTP not configured", "", ""), data |-> x.data]
        ELSE IF Recipients(to) = <<>>
        THEN [err |-> Resp(400, "No recipients provided", "", ""), data |-> x.data]
        ELSE x

\* The handler up to the `with smtplib.SMTP(...)` statement.
send_report ==
    /\ pc = "start"
    /\ \E f \in FormatInputs, to \in ToInputs, env \in SmtpEnvs,
          openpyxl \in BOOLEAN, reportlab \in BOOLEAN :
          LET b == build_report_rows(df1, df2, df3)
              p == send_report_prepare(b, f, to, env, openpyxl, reportlab)
          IN  /\ req' = Request("send_report", f, to, env)
              /\ SetPipe(b)
              /\ data' = p.data
              /\ IF p.err # NoError
                 THEN response' = p.err /\ pc' = "done"
                 ELSE response' = NoError /\ pc' = "smtp_connect"
    /\ UNCHANGED << df1, df2, df3, sent >>

\* An exception inside the try block: except Exception -> HTTPException(500).
SendFailed ==
    /\ response' = Resp(500, "Failed to send email", "", "")
    /\ pc' = "done"

\* smtplib.SMTP(smtp_host, smtp_port)
smtp_connect ==
    /\ pc = "smtp_connect"
    /\ \E ok \in BOOLEAN : IF ok THEN pc' = "smtp_starttls" /\ UNCHANGED response ELSE SendFailed
    /\ UNCHANGED << df1, df2, df3, pipe, req, data, sent >>

\* server.starttls()
smtp_starttls ==
    /\ pc = "smtp_starttls"
    /\ \E ok \in BOOLEAN : IF ok THEN pc' = "smtp_login" /\ UNCHANGED response ELSE SendFailed
    /\ UNCHANGED << df1, df2, df3, pipe, req, data, sent >>

\* server.login(smtp_user, smtp_pass)
smtp_login ==
    /\ pc = "smtp_login"
    /\ \E ok \in BOOLEAN : IF ok THEN pc' = "smtp_send" /\ UNCHANGED response ELSE SendFailed
    /\ UNCHANGED << df1, df2, df3, pipe, req, data, sent >>

\* server.send_message(msg): the relay takes the message, or an exception.
smtp_send_message ==
    /\ pc = "smtp_send"
    /\ \E ok \in BOOLEAN :
          IF ok THEN sent' = TRUE /\ pc' = "smtp_exit" /\ UNCHANGED response
          ELSE SendFailed /\ UNCHANGED sent
    /\ UNCHANGED << df1, df2, df3, pipe, req, data >>

\* Leaving the with block (the session's QUIT), then the return statement; an
\* exception raised on leaving is caught by the same except clause.
smtp_exit ==
    /\ pc = "smtp_exit"
    /\ \E ok \in BOOLEAN :
          IF ok THEN response' = Resp(200, "sent", "", "") /\ pc' = "done"
          ELSE SendFailed
    /\ UNCHANGED << df1, df2, df3, pipe, req, data, sent >>

NextApi ==
    \/ reconcile
    \/ send_report
    \/ smtp_connect
    \/ smtp_starttls
    \/ smtp_login
    \/ smtp_send_message
    \/ smtp_exit

SpecApi == InitApi /\ [][NextApi]_vars

(* ============================== claims ================================ *)
\* The Pickticket of a row, as every stage reads it.
Pt(r) == Get(r, "Pickticket", "")

\* The filter's predicate as the specification words it: a status field is
\* absent from the row, or the two statuses are exactly the exception pair.
Retainable(r) ==
    \/ ~HasKey(r, "SalesHeaderDocStatus")
    \/ ~HasKey(r, "EDI Processing Status")
    \/ /\ HasKey(r, "SalesHeaderDocStatus") /\ HasKey(r, "EDI Processing Status")
       /\ r[CHOOSE i \in 1..Len(r) : r[i][1] = "SalesHeaderDocStatus"][2] = "Picking List"
       /\ r[CHOOSE i \in 1..Len(r) : r[i][1] = "EDI Processing Status"][2] = "AX Load Failure"

\* The position of the last record of feed whose column col holds k (a record
\* without the column counts as holding ""), or 0 when there is none.
LastMatch(feed, col, k) ==
    LET J == { j \in 1..Len(feed) : Get(feed[j], col, "") = k }
    IN  IF J = {} THEN 0 ELSE CHOOSE j \in J : \A j2 \in J : j2 <= j

\* The rows of s at the positions in I, in order.
RECURSIVE PickUpTo(_, _, _)
PickUpTo(s, I, n) ==
    IF n = 0 THEN <<>>
    ELSE IF n \in I THEN Append(PickUpTo(s, I, n - 1), s[n])
    ELSE PickUpTo(s, I, n - 1)

\* The name a pre-rename field carries in the report.
Renamed(f) ==
    CASE f = "InvoiceNumber" -> "Received in EDI?"
      [] f = "StatusSummary" -> "EDI Processing Status"
      [] f = "ERRORDESCRIPTION" -> "EDI Message"
      [] f = "PickRoute" -> "Found in AX DATa?"
      [] OTHER -> f

Range(s) == { s[i] : i \in 1..Len(s) }

\* The fields the report takes from the EDI acknowledgment and AX routing feeds.
EdiFields == { Renamed(f) : f \in Range(AckFields) }
AxFields  == { Renamed(f) : f \in Range(RouteFields) }

(* ------------------------------- C1 ----------------------------------- *)
\* The case of Scenario C: build_report_rows has returned for a primary feed
\* of one row whose Pickticket matches no AXReferenceID and no PickRoute.
UnmatchedSingle ==
    /\ pc = "returned"
    /\ Len(df1) = 1
    /\ LastMatch(df2, "AXReferenceID", Pt(df1[1])) = 0
    /\ LastMatch(df3, "PickRoute", Pt(df1[1])) = 0

\* C1 as stated: in the case of Scenario C the output is exactly one row for
\* that Pickticket, its EDI and AX fields all the empty string (the unmatched
\* row is retained by the filter).
C1_UnmatchedRowRetained ==
    UnmatchedSingle =>
        /\ Len(deduped) = 1
        /\ Pt(deduped[1]) = Pt(df1[1])
        /\ \A f \in EdiFields \cup AxFields : Get(deduped[1], f, None) = ""

\* C1 amended: in the case of Scenario C the joined row has every AX field
\* present and empty and its EDI fields equal to the primary row's own
\* acknowledgment columns (empty when it has none), and because its status
\* fields are present, not absent, the filter drops it: the output is empty.
C1_UnmatchedRowDropped ==
    UnmatchedSingle =>
        /\ Len(final_rows) = 1
        /\ Pt(final_rows[1]) = Pt(df1[1])
        /\ \A f \in AxFields : Get(final_rows[1], f, None) = ""
        /\ \A f \in Range(AckFields) :
              Get(final_rows[1], Renamed(f), None) = Get(df1[1], f, "")
        /\ deduped = <<>>

C1_Witness ==
    /\ UnmatchedSingle
    /\ Len(final_rows) = 1
    /\ Get(final_rows[1], "EDI Processing Status", None) = ""
    /\ deduped = <<>>

(* ------------------------------- C2 ----------------------------------- *)
\* C2: the filter stage retains a joined-and-renamed row if and only if one
\* of its two status fields is absent or SalesHeaderDocStatus is "Picking
\* List" and EDI Processing Status is "AX Load Failure"; a row with "AX Load
\* Failure" and "Shipped" never appears in the output.
C2_FilterExact ==
    pc = "returned" =>
        /\ filtered = PickUpTo(final_rows,
                               { i \in 1..Len(final_rows) : Retainable(final_rows[i]) },
                               Len(final_rows))
        /\ \A i \in 1..Len(deduped) :
              ~ /\ Get(deduped[i], "EDI Processing Status", None) = "AX Load Failure"
                /\ Get(deduped[i], "SalesHeaderDocStatus", None) = "Shipped"

C2_Witness ==
    /\ pc = "returned"
    /\ \E i \in 1..Len(final_rows) :
          /\ Get(final_rows[i], "EDI Processing Status", None) = "AX Load Failure"
          /\ Get(final_rows[i], "SalesHeaderDocStatus", None) = "Shipped"
    /\ Len(filtered) = 1
    /\ Len(final_rows) = 2

(* ------------------------------- C3 ----------------------------------- *)
\* C3: no two rows of the list build_report_rows returns have the same
\* Pickticket value.
C3_UniquePickticket ==
    pc = "returned" =>
        \A i, j \in 1..Len(deduped) : i # j => Pt(deduped[i]) # Pt(deduped[j])

C3_Witness ==
    /\ pc = "returned"
    /\ \E i, j \in 1..Len(filtered) : i < j /\ Pt(filtered[i]) = Pt(filtered[j])
    /\ Len(deduped) >= 1

(* ------------------------------- C4 ----------------------------------- *)
\* C4: the joined rows stand in primary-feed order, and the output is the
\* subsequence of them made of each row that passes the filter and has no
\* earlier passing row with the same Pickticket (first seen wins).
C4_FirstSeenWins ==
    pc = "returned" =>
        /\ Len(final_rows) = Len(df1)
        /\ \A i \in 1..Len(df1) :
              /\ Pt(final_rows[i]) = Pt(df1[i])
              /\ Get(final_rows[i], "Warehouse", None) = Get(df1[i], "Warehouse", "")
        /\ deduped = PickUpTo(final_rows,
                              { i \in 1..Len(final_rows) :
                                  /\ Retainable(final_rows[i])
                                  /\ \A j \in 1..(i - 1) :
                                        Retainable(final_rows[j])
                                            => Pt(final_rows[j]) # Pt(final_rows[i]) },
                              Len(final_rows))

C4_Witness ==
    /\ pc = "returned"
    /\ Len(filtered) = 2
    /\ Pt(filtered[1]) = Pt(filtered[2])
    /\ Get(filtered[1], "Warehouse", None) # Get(filtered[2], "Warehouse", None)
    /\ deduped = << filtered[1] >>

(* ------------------------------- C5 ----------------------------------- *)
\* C5: a primary row whose Pickticket is the key of several records of a
\* secondary feed takes every field that feed gives it from the last such
\* record in input order.
C5_LastRecordWins ==
    pc = "returned" =>
        \A i \in 1..Len(df1) :
            LET a == LastMatch(df2, "AXReferenceID", Pt(df1[i]))
                b == LastMatch(df3, "PickRoute", Pt(df1[i]))
            IN  /\ a # 0 =>
                      \A f \in Range(AckFields) :
                          HasKey(df2[a], f) => Get(merged[i], f, None) = Get(df2[a], f, None)
                /\ b # 0 =>
                      \A f \in Range(RouteFields) :
                          Get(final_rows[i], Renamed(f), None) = Get(df3[b], f, "")

C5_Witness ==
    /\ pc = "returned"
    /\ \E i \in 1..Len(df1) :
          \E j1, j2 \in 1..Len(df2) :
              /\ j1 < j2
              /\ Get(df2[j1], "AXReferenceID", "") = Pt(df1[i])
              /\ Get(df2[j2], "AXReferenceID", "") = Pt(df1[i])
              /\ HasKey(df2[j1], "StatusSummary")
              /\ Get(df2[j1], "StatusSummary", "") # Get(df2[j2], "StatusSummary", "")
              /\ Get(merged[i], "StatusSummary", None) = Get(df2[j2], "StatusSummary", "")

(* ------------------------------- C7 ----------------------------------- *)
\* C7 as stated: whenever a secondaryA record matches the row's Pickticket
\* each acknowledgment field is taken from that record; the primary row's
\* own field is used only when no record matches.
C7_MatchedRecordAlwaysUsed ==
    pc = "returned" =>
        \A i \in 1..Len(df1) : \A f \in Range(AckFields) :
            LET a == LastMatch(df2, "AXReferenceID", Pt(df1[i]))
            IN  Get(merged[i], f, None) =
                    IF a # 0 THEN Get(df2[a], f, "") ELSE Get(df1[i], f, "")

\* C7 amended: each acknowledgment field is taken from the matched record
\* when that record has the field; when no record matches, or the matched
\* record lacks the field, the primary row's own field is used; the empty
\* string is used only when the primary row has no such field either.
C7_FieldwiseFallback ==
    pc = "returned" =>
        \A i \in 1..Len(df1) : \A f \in Range(AckFields) :
            LET a == LastMatch(df2, "AXReferenceID", Pt(df1[i]))
                v == Get(merged[i], f, None)
            IN  /\ (a # 0 /\ HasKey(df2[a], f)) => v = Get(df2[a], f, None)
                /\ (~(a # 0 /\ HasKey(df2[a], f)) /\ HasKey(df1[i], f))
                      => v = Get(df1[i], f, None)
                /\ (~(a # 0 /\ HasKey(df2[a], f)) /\ ~HasKey(df1[i], f)) => v = ""

C7_Witness ==
    /\ pc = "returned"
    /\ \E i \in 1..Len(df1) :
          LET a == LastMatch(df2, "AXReferenceID", Pt(df1[i]))
          IN  /\ a # 0
              /\ ~HasKey(df2[a], "StatusSummary")
              /\ HasKey(df1[i], "StatusSummary")
              /\ Get(merged[i], "StatusSummary", None) = Get(df1[i], "StatusSummary", None)
              /\ Get(merged[i], "StatusSummary", None) # ""

(* ------------------------------- C8 ----------------------------------- *)
\* A feed with data rows none of which has the column.
Lacks(feed, col) == Len(feed) > 0 /\ \A i \in 1..Len(feed) : ~HasKey(feed[i], col)

\* The required column of each feed, with the name the error gives the feed.
Required ==
    { << "Pickticket", "Shipment_History___Total" >>,
      << "AXReferenceID", "EDIB2BiReportV2" >>,
      << "PickRoute", "EDI940Report_withCostV2.0" >> }

FeedNamed(source) ==
    CASE source = "Shipment_History___Total" -> df1
      [] source = "EDIB2BiReportV2" -> df2
      [] OTHER -> df3

\* C8: build_report_rows raises exactly when a feed with data rows lacks its
\* required column (a feed with no data rows never does); the error names a
\* column that is missing and the feed it is missing from; and when it is
\* raised no report row has been produced.
C8_RequiredColumns ==
    pc \in {"returned", "raised"} =>
        /\ (pc = "raised") <=> (\E q \in Required : Lacks(FeedNamed(q[2]), q[1]))
        /\ pc = "raised" =>
              /\ err.status = 400
              /\ err.kind = "Missing column"
              /\ << err.column, err.source >> \in Required
              /\ Lacks(FeedNamed(err.source), err.column)
              /\ merged = <<>> /\ final_rows = <<>> /\ filtered = <<>> /\ deduped = <<>>
        /\ pc = "returned" => err = NoError

C8_Witness ==
    /\ pc = "raised"
    /\ df1 = <<>>
    /\ Lacks(df2, "AXReferenceID")
    /\ err.column = "AXReferenceID"
    /\ err.source = "EDIB2BiReportV2"

(* ------------------------------- C10 ---------------------------------- *)
\* C10: a Pickticket value is in the output if and only if some primary row
\* with that Pickticket passes the filter; an earlier row of the same
\* Pickticket that fails the filter does not suppress a later one that passes.
C10_FilterBeforeDedupe ==
    pc = "returned" =>
        \A k \in PickKeys \cup {""} :
            (\E i \in 1..Len(deduped) : Pt(deduped[i]) = k)
                <=> (\E i \in 1..Len(final_rows) :
                        Pt(final_rows[i]) = k /\ Retainable(final_rows[i]))

C10_Witness ==
    /\ pc = "returned"
    /\ \E i, j \in 1..Len(final_rows) :
          /\ i < j
          /\ Pt(final_rows[i]) = Pt(final_rows[j])
          /\ ~Retainable(final_rows[i])
          /\ Retainable(final_rows[j])
          /\ deduped = << final_rows[j] >>

(* ------------------------------- C6 ----------------------------------- *)
\* The ReportRecord fields in the fixed column order the specification gives.
ReportFields ==
    << "Pickticket", "Warehouse", "Order", "Drop Date", "Ship Date", "Ship To",
       "Ship State", "Zip Code", "Customer PO", "Ship Via", "Load ID", "Weight",
       "SKU", "Units", "Price", "Size Type", "Size", "Product Type",
       "Received in EDI?", "EDI Processing Status", "EDI Message",
       "Found in AX Data?", "SalesHeaderStatus", "SalesHeaderDocStatus",
       "PickModeOfDelivery", "PickCreatedDate", "DeliveryDate" >>

\* C6: every row the pipeline emits carries exactly the 27 ReportRecord
\* fields (none of the pre-rename keys), and every output kind lists the
\* fields in the fixed column order.
C6_FieldsAndOrder ==
    (pc = "done" /\ req.endpoint = "reconcile" /\ response.status = 200) =>
        /\ \A i \in 1..Len(deduped) :
              /\ Range(Keys(deduped[i])) = Range(ReportFields)
              /\ Len(deduped[i]) = Len(ReportFields)
        /\ data.kind \in {"xlsx", "csv", "pdf"} => data.header = ReportFields
        /\ data.kind = "json" => \A i \in 1..Len(data.rows) : Keys(data.rows[i]) = ReportFields

(* ------------------------------- C9 ----------------------------------- *)
\* Every check of send_report has passed on the request in req: no column
\* is missing, the format is one of xlsx, csv, pdf and the whole report has
\* been exported in it, host, user and password are set, and some recipient
\* is left after trimming.
ChecksPassed ==
    /\ ~(\E q \in Required : Lacks(FeedNamed(q[2]), q[1]))
    /\ err = NoError
    /\ NormFormat(req.format) \in {"xlsx", "csv", "pdf"}
    /\ data.kind = NormFormat(req.format)
    /\ Len(data.header) = Len(ReportFields)
    /\ Len(data.body) = Len(deduped)
    /\ \A i \in 1..Len(deduped) : data.body[i][1] = Pt(deduped[i])
    /\ \A v \in {req.env.host, req.env.user, req.env.pass} : v \notin {None, ""}
    /\ \E i \in 1..Len(req.to) : req.to[i] \notin {"", " "}

\* The errors of the checks that come before the transmission.
CheckErrors ==
    { "Missing column", "format must be one of xlsx,csv,pdf",
      "Excel export not available", "PDF export not available",
      "SMTP not configured", "No recipients provided" }

====
